---- MODULE Spec2Model ----
(***************************************************************************)
(* A model of the Learner (src/learner.py) and of CustomTokenizer          *)
(* (src/tokenizers.py).                                                    *)
(*                                                                         *)
(* Real numbers are exact rationals <<n, d>> with d > 0.  round(v, 4) is   *)
(* modelled by Round4, whose result is an integer number of 1/10000.       *)
(* The neural model is opaque: it is represented by the identity of its    *)
(* weights (the run that built it and the number of optimizer steps taken) *)
(* and by the requires_grad flag of its embedding.  Validation scores and  *)
(* losses are inputs of the step that measures them.                       *)
(***************************************************************************)
EXTENDS Integers, Sequences, FiniteSets, TLC

\* ------------------------------------------------------------------ bounds
MaxEpoch == 4
MaxBatches == 2
MaxEvalEvery == 2
MaxEarlyStop == 2
MaxWarmup == 2
F1Den == 3
MaxLoss == 1
MaxRuns == 2
MaxLifeEpoch == 1
MaxArgs == 2
MaxTime == 1
ProbDen == 4
ValLen == 3
MaxTrStep == 2
MaxTokLen == 4

\* ------------------------------------------------------------- arithmetic
Leq(a, b) == a[1] * b[2] <= b[1] * a[2]
Less(a, b) == a[1] * b[2] < b[1] * a[2]
Same(a, b) == a[1] * b[2] = b[1] * a[2]

\* round(v, 4) of a rational, in units of 1/10000 (no value of the model
\* lies exactly between two multiples of 1/10000: that needs d >= 32)
Round4(v) == (20000 * v[1] + v[2]) \div (2 * v[2])

Zero == <<0, 1>>

\* ------------------------------------------------------------------ state
VARIABLES
    modelFile,      \* ./models/best_model.m   : <<>> or <<model>>
    infoFile,       \* ./models/best_model.info: <<>> or <<[by, d]>>
    run,            \* number of the current run (one Learner per run)
    model,          \* self.model
    pc,             \* position of the Learner's caller / of fit
    p,              \* fit's arguments
    e,              \* fit: epoch index
    b,              \* fit: batches of the current epoch already processed
    step,           \* fit: step
    max_f1,         \* fit: max_f1
    no_improve_epoch,
    no_improve_in_previous_epoch,
    fine_tuning,
    \* history variables
    nEvals,         \* validation evaluations of this fit so far
    nSaves,         \* those of them that wrote the two checkpoint files
    lastEval,       \* the latest evaluation: <<[f1, prev, saved]>>
    bestEval,       \* the latest evaluation with the greatest score: <<[f1, m, d]>>
    ex,             \* leading evaluations that follow ExampleLevels
    epochImproved,  \* did an evaluation of the current epoch save
    streak,         \* completed consecutive epochs >= warmup without a save
    frozen0,        \* the embedding's state when fit was called
    thaws,          \* frozen -> unfrozen transitions of self.model in this fit
    \* the run and what it leaves behind
    mode,           \* self.args.mode
    args,           \* the other fields of self.args
    now,            \* the clock, in units of str_date_time's resolution
    subdirs,        \* ./models/<subdir>: name -> [csv, model]
    logs,           \* ./notes/test_records.csv and ./notes/records.csv
    recs,           \* history: the record() calls that returned
    ret,            \* what the last predict_labels was given and returned
    \* the tokenizer
    text,
    tokens

vars == <<modelFile, infoFile, run, model, pc, p, e, b, step, max_f1,
          no_improve_epoch, no_improve_in_previous_epoch, fine_tuning,
          nEvals, nSaves, lastEval, bestEval, ex, epochImproved, streak,
          frozen0, thaws, mode, args, now, subdirs, logs, recs, ret,
          text, tokens>>

fitVars == <<p, e, b, step, max_f1, no_improve_epoch,
             no_improve_in_previous_epoch, fine_tuning>>
histVars == <<nEvals, nSaves, lastEval, bestEval, ex, epochImproved, streak,
              frozen0, thaws>>
runVars == <<mode, args, now, subdirs, logs, recs, ret>>
tokVars == <<text, tokens>>

\* ----------------------------------------------------------------- inputs
F1Vals == {<<k, F1Den>> : k \in 0..F1Den}
LossVals == {<<k, 2>> : k \in 1..MaxLoss}
NoArgs == [epoch |-> 0, eval_every |-> 1, early_stop |-> 1,
           warmup_epoch |-> 0, nb |-> 1]
FitArgs == [epoch : 0..MaxEpoch, eval_every : 1..MaxEvalEvery,
            early_stop : 1..MaxEarlyStop, warmup_epoch : 0..MaxWarmup,
            nb : 1..MaxBatches]

\* the scores 0.5, 0.5, 0.6, 0.55 of the checkpoint example, as numerators
\* over F1Den (only their order matters)
ExampleLevels == <<1, 1, 3, 2>>

BaseFields == {"best_ep", "step", "train_loss", "val_loss", "f1_score"}

\* a checkpoint left on disk by an earlier run (run 0)
StaleModels == {[run |-> 0, step |-> 1, frozen |-> f] : f \in BOOLEAN}
StaleInfo == [by |-> 0,
              d |-> [k \in BaseFields |->
                       CASE k = "best_ep" -> 0
                         [] k = "step" -> 1
                         [] k = "f1_score" -> 10000
                         [] OTHER -> 5000]]

\* ------------------------------------------------------------ Learner.save
Save(m, info) ==
    /\ modelFile' = <<m>>
    /\ infoFile' = <<[by |-> run, d |-> info]>>

\* ----------------------------------------------------- Learner.format_info
format_info(info) == [k \in DOMAIN info |->
                        IF k \in {"best_ep", "step"} THEN info[k]
                        ELSE Round4(info[k])]

\* ------------------------------------------------------------- Learner.fit
FitStart(a) ==
    /\ pc = "idle"
    /\ p' = a
    /\ step' = 0
    /\ max_f1' = Zero
    /\ no_improve_epoch' = 0
    /\ no_improve_in_previous_epoch' = FALSE
    /\ fine_tuning' = FALSE
    /\ e' = 0
    /\ b' = 0
    /\ pc' = "head"
    /\ nEvals' = 0
    /\ nSaves' = 0
    /\ lastEval' = <<>>
    /\ bestEval' = <<>>
    /\ ex' = 0
    /\ epochImproved' = FALSE
    /\ streak' = 0
    /\ frozen0' = model.frozen
    /\ thaws' = 0
    /\ UNCHANGED <<modelFile, infoFile, run, model, runVars, tokVars>>

\* variant: one epoch more of patience
EarlyStopLate(ep, flag, cnt, es, wu) ==
    IF ep >= wu
    THEN IF flag
         THEN IF cnt + 1 > es
              THEN <<TRUE, cnt + 1, flag>>
              ELSE <<FALSE, cnt + 1, TRUE>>
         ELSE <<FALSE, 0, TRUE>>
    ELSE <<FALSE, cnt, flag>>

\* variant: the test is made in the warm-up epochs too
EarlyStopNoWarmup(ep, flag, cnt, es, wu) ==
    IF flag
    THEN IF cnt + 1 >= es
         THEN <<TRUE, cnt + 1, flag>>
         ELSE <<FALSE, cnt + 1, TRUE>>
    ELSE <<FALSE, 0, TRUE>>

\* the early-stop test at the top of the epoch loop: <<break, counter, flag>>
EarlyStop(ep, flag, cnt, es, wu) ==
    IF ep >= wu
    THEN IF flag
         THEN IF cnt + 1 >= es
              THEN <<TRUE, cnt + 1, flag>>
              ELSE <<FALSE, cnt + 1, TRUE>>
         ELSE <<FALSE, 0, TRUE>>
    ELSE <<FALSE, cnt, flag>>

\* variant: the gate opens one epoch late
UnfreezeLate(ep, ft, wu) == ~ft /\ ep > wu

\* the fine-tuning gate: is the embedding unfrozen at this epoch's top
Unfreeze(ep, ft, wu) == ~ft /\ ep >= wu

\* the top of one iteration of "for e in range(epoch)"
EpochHead ==
    /\ pc = "head"
    /\ IF e >= p.epoch
       THEN /\ pc' = "exit"
            /\ UNCHANGED <<model, no_improve_epoch,
                           no_improve_in_previous_epoch, fine_tuning, b,
                           epochImproved, streak, thaws>>
       ELSE LET es == EarlyStop(e, no_improve_in_previous_epoch,
                                no_improve_epoch, p.early_stop, p.warmup_epoch)
                st == IF e >= 1 /\ e - 1 >= p.warmup_epoch /\ ~epochImproved
                      THEN streak + 1 ELSE 0
            IN  /\ no_improve_epoch' = es[2]
                /\ no_improve_in_previous_epoch' = es[3]
                /\ streak' = st
                /\ IF es[1]
                   THEN /\ pc' = "exit"
                        /\ UNCHANGED <<model, fine_tuning, b, epochImproved,
                                       thaws>>
                   ELSE /\ pc' = "train"
                        /\ b' = 0
                        /\ epochImproved' = FALSE
                        /\ IF Unfreeze(e, fine_tuning, p.warmup_epoch)
                           THEN /\ model' = [model EXCEPT !.frozen = FALSE]
                                /\ fine_tuning' = TRUE
                                /\ thaws' = IF model.frozen THEN thaws + 1
                                            ELSE thaws
                           ELSE UNCHANGED <<model, fine_tuning, thaws>>
    /\ UNCHANGED <<modelFile, infoFile, run, p, e, step, max_f1, nEvals,
                   nSaves, lastEval, bestEval, ex, frozen0, runVars, tokVars>>

\* variant: a tie does not save
ImprovesStrictly(f1, best) == Less(best, f1)

\* the checkpointing rule: does an evaluation with score f1 save
Improves(f1, best) == Leq(best, f1)

\* the greatest score evaluated so far in this fit (0 when there is none)
RunningBest == IF bestEval = <<>> THEN Zero ELSE bestEval[1].f1

\* one training batch, with the validation pass when step % eval_every = 0;
\* f1, tl and vl are what the pass measures
TrainStep(f1, tl, vl) ==
    /\ pc = "train"
    /\ b < p.nb
    /\ LET s == step + 1
           m == [model EXCEPT !.step = s]
           info == format_info([best_ep |-> e, step |-> s, train_loss |-> tl,
                                val_loss |-> vl, f1_score |-> f1])
           eval == s % p.eval_every = 0
           top == eval /\ Leq(RunningBest, f1)
       IN  /\ step' = s
           /\ b' = b + 1
           /\ model' = m
           /\ IF eval /\ Improves(f1, max_f1)
              THEN /\ Save(m, info)
                   /\ max_f1' = f1
                   /\ no_improve_in_previous_epoch' = FALSE
              ELSE UNCHANGED <<modelFile, infoFile, max_f1,
                               no_improve_in_previous_epoch>>
           \* history: what was evaluated, and whether the two files were written
           /\ nEvals' = IF eval THEN nEvals + 1 ELSE nEvals
           /\ lastEval' = IF eval
                          THEN <<[f1 |-> f1, prev |-> RunningBest,
                                  saved |-> /\ modelFile' = <<m>>
                                            /\ infoFile' = <<[by |-> run, d |-> info]>>]>>
                          ELSE lastEval
           /\ nSaves' = IF eval /\ lastEval'[1].saved THEN nSaves + 1 ELSE nSaves
           /\ bestEval' = IF top THEN <<[f1 |-> f1, m |-> m, d |-> info]>>
                          ELSE bestEval
           /\ epochImproved' = (epochImproved \/ top)
           /\ ex' = IF /\ eval
                       /\ ex = nEvals
                       /\ nEvals < Len(ExampleLevels)
                       /\ f1[1] = ExampleLevels[nEvals + 1]
                    THEN ex + 1 ELSE ex
    /\ UNCHANGED <<run, pc, p, e, no_improve_epoch, fine_tuning, streak,
                   frozen0, thaws, runVars, tokVars>>

\* the training iterator of the epoch is exhausted
EpochEnd ==
    /\ pc = "train"
    /\ b >= p.nb
    /\ e' = e + 1
    /\ pc' = "head"
    /\ UNCHANGED <<modelFile, infoFile, run, model, p, b, step, max_f1,
                   no_improve_epoch, no_improve_in_previous_epoch,
                   fine_tuning, histVars, runVars, tokVars>>

\* ------------------------------------------------------------ Learner.load
\* torch.load of a missing file raises; after is where the caller goes on
Load(after) ==
    IF modelFile = <<>> \/ infoFile = <<>>
    THEN /\ pc' = "error"
         /\ UNCHANGED model
    ELSE /\ model' = modelFile[1]
         /\ pc' = after

\* the end of fit: m_info = self.load()
FitReturn ==
    /\ pc = "exit"
    /\ Load("done")
    /\ UNCHANGED <<modelFile, infoFile, run, fitVars, histVars, runVars,
                   tokVars>>

\* a load() called from outside fit, when only inference is needed
LoadCall ==
    /\ pc = "idle"
    /\ Load("idle")
    /\ UNCHANGED <<modelFile, infoFile, run, fitVars, histVars, runVars,
                   tokVars>>

\* ------------------------------------------------- Learner.predict_labels
\* probabilities and thresholds are integers, in units of 1/ProbDen
Above(pred, t) == [i \in DOMAIN pred |-> IF pred[i] > t THEN 1 ELSE 0]
AtLeast(pred, t) == [i \in DOMAIN pred |-> IF pred[i] >= t THEN 1 ELSE 0]

\* sklearn.metrics.f1_score of 0/1 labels: 2tp / (2tp + fp + fn), and 0
\* (with a warning, which the caller ignores) when the denominator is 0
f1_score(true, lab) ==
    LET tp == Cardinality({i \in DOMAIN true : true[i] = 1 /\ lab[i] = 1})
        fp == Cardinality({i \in DOMAIN true : true[i] = 0 /\ lab[i] = 1})
        fn == Cardinality({i \in DOMAIN true : true[i] = 1 /\ lab[i] = 0})
    IN  IF 2 * tp + fp + fn = 0 THEN Zero ELSE <<2 * tp, 2 * tp + fp + fn>>

\* np.arange(lo, hi, st) for st > 0
arange(lo, hi, st) ==
    LET n == IF hi > lo THEN (hi - lo + st - 1) \div st ELSE 0
    IN  [i \in 1..n |-> lo + (i - 1) * st]

\* variant: a tie moves the threshold
BetterOrEqual(f, best) == Leq(best, f)

\* "if tmp[1] > tmp[2]"
Better(f, best) == Less(best, f)

\* the loop of _choose_tr over the candidates left; acc is <<tr, tmp[2]>>
RECURSIVE ChooseLoop(_, _, _, _)
ChooseLoop(cands, vp, vt, acc) ==
    IF cands = <<>> THEN acc
    ELSE LET c == Head(cands)
             f == f1_score(vt, Above(vp, c))
         IN  ChooseLoop(Tail(cands), vp, vt,
                        IF Better(f, acc[2]) THEN <<c, f>> ELSE acc)

choose_tr(vp, vt, min_tr, max_tr, tr_step) ==
    ChooseLoop(arange(min_tr, max_tr, tr_step), vp, vt, <<min_tr, Zero>>)

\* variant: the record is replaced by the new fields
append_info_replacing(file, dict) ==
    <<[by |-> file[1].by, d |-> format_info(dict)]>>

\* Learner.append_info: info.update(format_info(dict)) on the loaded record
append_info(file, dict) ==
    LET f == format_info(dict)
        info == file[1].d
    IN  <<[by |-> file[1].by,
           d |-> [k \in DOMAIN info \cup DOMAIN f |->
                    IF k \in DOMAIN f THEN f[k] ELSE info[k]]]>>

\* tresh is [kind |-> "fixed", t] or the list [kind |-> "list", min, max, step];
\* vp and vt are the validation split's probabilities and labels, tp the
\* test split's probabilities
PredictLabels(is_test, tresh, vp, vt, tp) ==
    /\ pc \in {"idle", "done"}
    /\ LET y_pred == IF is_test THEN tp ELSE vp
           y_true == IF is_test THEN <<>> ELSE vt
       IN  IF tresh.kind = "list"
           THEN LET r == choose_tr(vp, vt, tresh.min, tresh.max, tresh.step)
                IN  IF infoFile = <<>>
                    THEN /\ pc' = "error"
                         /\ UNCHANGED <<infoFile, ret>>
                    ELSE /\ infoFile' = append_info(infoFile,
                                           [best_tr |-> <<r[1], ProbDen>>,
                                            best_f1 |-> r[2]])
                         /\ ret' = <<[is_test |-> is_test, tresh |-> tresh,
                                      vp |-> vp, vt |-> vt, tr |-> r[1],
                                      f1 |-> r[2],
                                      y_label |-> AtLeast(y_pred, r[1]),
                                      y_true |-> y_true]>>
                         /\ UNCHANGED pc
           ELSE /\ ret' = <<[is_test |-> is_test, tresh |-> tresh,
                             vp |-> vp, vt |-> vt, tr |-> tresh.t, f1 |-> Zero,
                             y_label |-> AtLeast(y_pred, tresh.t),
                             y_true |-> y_true]>>
                /\ UNCHANGED <<infoFile, pc>>
    /\ UNCHANGED <<modelFile, run, model, fitVars, histVars, mode, args, now,
                   subdirs, logs, recs, tokVars>>

\* ----------------------------------------------------------- Learner.record
\* str_date_time(), with the "_test" suffix of test mode
Subdir(t, m) == <<t, m = "test">>

\* dict_to_csv(data, path, mode, ...): the rows of the file afterwards
dict_to_csv(data, old, fmode) ==
    IF fmode = "w" THEN <<data>> ELSE Append(old, data)

Record ==
    /\ pc \in {"idle", "done"}
    /\ LET subdir == Subdir(now, mode)
       IN  IF subdir \in DOMAIN subdirs
           THEN \* os.mkdir raises FileExistsError
                /\ pc' = "error"
                /\ UNCHANGED <<subdirs, logs, recs>>
           ELSE IF infoFile = <<>>
           THEN \* torch.load raises; the directory made stays, empty
                /\ pc' = "error"
                /\ subdirs' = [n \in DOMAIN subdirs \cup {subdir} |->
                                 IF n = subdir THEN [csv |-> <<>>, model |-> <<>>]
                                 ELSE subdirs[n]]
                /\ UNCHANGED <<logs, recs>>
           ELSE LET param_dict == [hash |-> "hash", subdir |-> subdir,
                                   args |-> args, mode |-> mode,
                                   info |-> infoFile[1]]
                IN  /\ subdirs' = [n \in DOMAIN subdirs \cup {subdir} |->
                                     IF n = subdir
                                     THEN [csv |-> dict_to_csv(param_dict, <<>>, "w"),
                                           model |-> modelFile]
                                     ELSE subdirs[n]]
                    /\ logs' = [logs EXCEPT
                                  ![mode] = dict_to_csv(param_dict, @, "a")]
                    /\ recs' = Append(recs, [run |-> run, mode |-> mode,
                                             args |-> args, subdir |-> subdir,
                                             fitted |-> pc = "done"])
                    /\ UNCHANGED pc
    /\ UNCHANGED <<modelFile, infoFile, run, model, fitVars, histVars, mode,
                   args, now, ret, tokVars>>

\* time passes
Tick ==
    /\ now < MaxTime
    /\ now' = now + 1
    /\ UNCHANGED <<modelFile, infoFile, run, model, pc, fitVars, histVars, mode,
                   args, subdirs, logs, recs, ret, tokVars>>

\* ---------------------------------------------------------- Learner.__init__
\* the next run: a new process, a new model, a new Learner
NewLearner(m, a, frozen) ==
    /\ pc \in {"idle", "done", "error"}
    /\ run < MaxRuns
    /\ run' = run + 1
    /\ model' = [run |-> run + 1, step |-> 0, frozen |-> frozen]
    /\ mode' = m
    /\ args' = a
    /\ pc' = "idle"
    /\ p' = NoArgs
    /\ e' = 0
    /\ b' = 0
    /\ step' = 0
    /\ max_f1' = Zero
    /\ no_improve_epoch' = 0
    /\ no_improve_in_previous_epoch' = FALSE
    /\ fine_tuning' = FALSE
    /\ nEvals' = 0
    /\ nSaves' = 0
    /\ lastEval' = <<>>
    /\ bestEval' = <<>>
    /\ ex' = 0
    /\ epochImproved' = FALSE
    /\ streak' = 0
    /\ frozen0' = frozen
    /\ thaws' = 0
    /\ ret' = <<>>
    /\ UNCHANGED <<modelFile, infoFile, now, subdirs, logs, recs, tokVars>>

\* ------------------------------------------- CustomTokenizer (tokenizers.py)
\* a text is a sequence of one-character strings
Punct == {",", "!", ".", "?", "(", ")"}

\* text.split(' '): the pieces between single spaces, empty ones included
RECURSIVE Split(_)
Split(s) ==
    IF \A i \in DOMAIN s : s[i] # " " THEN <<s>>
    ELSE LET i == CHOOSE j \in DOMAIN s :
                    s[j] = " " /\ \A k \in 1..(j - 1) : s[k] # " "
         IN  <<SubSeq(s, 1, i - 1)>> \o Split(SubSeq(s, i + 1, Len(s)))

\* variant: the last match instead of the first
SearchLast(ss, from) ==
    IF \A i \in from..Len(ss) : ss[i] \notin {",", "!", ".", "?", "(", ")"} THEN 0
    ELSE CHOOSE i \in from..Len(ss) :
           /\ ss[i] \in {",", "!", ".", "?", "(", ")"}
           /\ \A j \in (i + 1)..Len(ss) : ss[j] \notin {",", "!", ".", "?", "(", ")"}

\* self.punct.search(ss): the index of the first match, 0 for no match
RECURSIVE Search(_, _)
Search(ss, from) ==
    IF from > Len(ss) THEN 0
    ELSE IF ss[from] \in Punct THEN from
    ELSE Search(ss, from + 1)

NonEmpty(t) == Len(t) > 0

\* the tokens of one substring
SsTokens(ss) ==
    LET start == Search(ss, 1)
    IN  IF start > 0
        THEN SelectSeq(<<SubSeq(ss, 1, start - 1), <<ss[start]>>,
                         SubSeq(ss, start + 1, Len(ss))>>, NonEmpty)
        ELSE <<ss>>

RECURSIVE Extend(_)
Extend(substrings) ==
    IF substrings = <<>> THEN <<>>
    ELSE SsTokens(Head(substrings)) \o Extend(Tail(substrings))

CustomTokenizer(t) == Extend(Split(t))

Tokenize ==
    /\ tokens = <<>>
    /\ tokens' = <<CustomTokenizer(text)>>
    /\ UNCHANGED <<modelFile, infoFile, run, model, pc, fitVars, histVars,
                   runVars, text>>

\* ----------------------------------------------------------------- inputs
Alphabet == {"a", " ", ",", "."}
RECURSIVE Strings(_)
Strings(n) ==
    IF n = 0 THEN {<<>>}
    ELSE LET shorter == Strings(n - 1)
         IN  shorter \cup {Append(s, c) : s \in shorter, c \in Alphabet}

HelloWorld == <<"h", "e", "l", "l", "o", ",", "w", "o", "r", "l", "d">>
WaitReally == <<"w", "a", "i", "t", ".", ".", ".", " ",
                "r", "e", "a", "l", "l", "y", "?">>
NoPunct == <<"n", "o", " ", "p", "u", "n", "c", "t", " ", "h", "e", "r", "e">>
Texts == Strings(MaxTokLen) \cup {HelloWorld, WaitReally, NoPunct}

Modes == {"test", "run"}
ArgVals == 1..MaxArgs

RECURSIVE Seqs(_, _)
Seqs(S, n) ==
    IF n = 0 THEN {<<>>}
    ELSE {Append(s, x) : s \in Seqs(S, n - 1), x \in S}

\* the splits of at most n rows: probabilities and labels, row by row
Splits(n) ==
    UNION {{[vp |-> [i \in 1..k |-> s[i][1]], vt |-> [i \in 1..k |-> s[i][2]]] :
              s \in Seqs((0..ProbDen) \X {0, 1}, k)} : k \in 1..n}

Treshs ==
    {[kind |-> "fixed", t |-> t] : t \in 0..ProbDen}
    \cup {[kind |-> "list", min |-> lo, max |-> hi, step |-> st] :
             lo \in 0..ProbDen, hi \in 0..ProbDen, st \in 1..MaxTrStep}

\* the test split's probabilities
TestSplit == <<0, ProbDen \div 2, ProbDen>>

\* the fits of the runs: the default patience and warm-up, one batch an epoch
LifeArgs == {a \in FitArgs : /\ a.epoch <= MaxLifeEpoch
                             /\ a.eval_every = 1
                             /\ a.early_stop = 1
                             /\ a.warmup_epoch = 2
                             /\ a.nb = 1}
LifeSplit == [vp |-> <<ProbDen \div 2, ProbDen>>, vt |-> <<0, 1>>]
LifeTreshs == {[kind |-> "fixed", t |-> ProbDen \div 2],
               [kind |-> "list", min |-> 0, max |-> ProbDen,
                step |-> ProbDen \div 2]}

\* --------------------------------------------------------- specifications
\* a Learner just constructed, nothing called yet
Fresh ==
    /\ run = 1
    /\ model \in {[run |-> 1, step |-> 0, frozen |-> f] : f \in BOOLEAN}
    /\ pc = "idle"
    /\ p = NoArgs
    /\ e = 0
    /\ b = 0
    /\ step = 0
    /\ max_f1 = Zero
    /\ no_improve_epoch = 0
    /\ no_improve_in_previous_epoch = FALSE
    /\ fine_tuning = FALSE
    /\ nEvals = 0
    /\ nSaves = 0
    /\ lastEval = <<>>
    /\ bestEval = <<>>
    /\ ex = 0
    /\ epochImproved = FALSE
    /\ streak = 0
    /\ frozen0 = model.frozen
    /\ thaws = 0
    /\ now = 0
    /\ subdirs = <<>>
    /\ logs = [m \in Modes |-> <<>>]
    /\ recs = <<>>
    /\ ret = <<>>

NoText == text = <<>> /\ tokens = <<>>

\* the runs of a fresh checkout: no checkpoint on disk yet
Init ==
    /\ modelFile = <<>>
    /\ infoFile = <<>>
    /\ Fresh
    /\ mode \in Modes
    /\ args \in ArgVals
    /\ NoText

Next ==
    \/ \E a \in LifeArgs : FitStart(a)
    \/ EpochHead
    \/ \E f1 \in F1Vals, tl \in LossVals, vl \in LossVals : TrainStep(f1, tl, vl)
    \/ EpochEnd
    \/ FitReturn
    \/ LoadCall
    \/ \E tresh \in LifeTreshs :
          PredictLabels(FALSE, tresh, LifeSplit.vp, LifeSplit.vt, TestSplit)
    \/ (\A i \in DOMAIN recs : recs[i].run # run) /\ Record
    \/ Tick
    \/ \E m \in Modes, a \in ArgVals : NewLearner(m, a, TRUE)

Spec == Init /\ [][Next]_vars

\* one call of fit, on a disk that is empty or holds an earlier run's checkpoint
InitFit ==
    /\ \/ modelFile = <<>> /\ infoFile = <<>>
       \/ modelFile \in {<<m>> : m \in StaleModels} /\ infoFile = <<StaleInfo>>
    /\ Fresh
    /\ mode = "run"
    /\ args = 1
    /\ NoText

NextFit ==
    \/ \E a \in FitArgs : FitStart(a)
    \/ EpochHead
    \/ \E f1 \in F1Vals, tl \in LossVals, vl \in LossVals : TrainStep(f1, tl, vl)
    \/ EpochEnd
    \/ FitReturn

SpecFit == InitFit /\ [][NextFit]_vars

\* a Learner whose fit(1, 1, tresh, 1, 0) over one batch has just returned,
\* its one evaluation having scored 1
AfterFit ==
    LET m == [run |-> 1, step |-> 1, frozen |-> FALSE]
        d == format_info([best_ep |-> 0, step |-> 1, train_loss |-> <<1, 2>>,
                          val_loss |-> <<1, 2>>, f1_score |-> <<F1Den, F1Den>>])
    IN  /\ modelFile = <<m>>
        /\ infoFile = <<[by |-> 1, d |-> d]>>
        /\ run = 1
        /\ model = m
        /\ pc = "done"
        /\ p = [epoch |-> 1, eval_every |-> 1, early_stop |-> 1,
                warmup_epoch |-> 0, nb |-> 1]
        /\ e = 1
        /\ b = 1
        /\ step = 1
        /\ max_f1 = <<F1Den, F1Den>>
        /\ no_improve_epoch = 0
        /\ no_improve_in_previous_epoch = FALSE
        /\ fine_tuning = TRUE
        /\ nEvals = 1
        /\ nSaves = 1
        /\ lastEval = <<[f1 |-> <<F1Den, F1Den>>, prev |-> Zero, saved |-> TRUE]>>
        /\ bestEval = <<[f1 |-> <<F1Den, F1Den>>, m |-> m, d |-> d]>>
        /\ ex = 0
        /\ epochImproved = TRUE
        /\ streak = 0
        /\ frozen0 = TRUE
        /\ thaws = 1
        /\ now = 0
        /\ subdirs = <<>>
        /\ logs = [k \in Modes |-> <<>>]
        /\ recs = <<>>
        /\ ret = <<>>
        /\ mode = "run"
        /\ args = 1
        /\ NoText

\* one call of predict_labels by a Learner whose fit has saved a checkpoint
InitTr == AfterFit

NextTr ==
    /\ ret = <<>>
    /\ \E is_test \in BOOLEAN, tresh \in Treshs, s \in Splits(ValLen) :
          PredictLabels(is_test, tresh, s.vp, s.vt, TestSplit)

SpecTr == InitTr /\ [][NextTr]_vars

\* the tokenizer applied to a text
InitTok ==
    /\ modelFile = <<>>
    /\ infoFile = <<>>
    /\ Fresh
    /\ model.frozen
    /\ mode = "run"
    /\ args = 1
    /\ text \in Texts
    /\ tokens = <<>>

SpecTok == InitTok /\ [][Tokenize]_vars

\* ================================================================= claims

\* ------------------------------------------------------------------- C1
\* C1: an evaluation of fit writes the two checkpoint files if and only if
\* its F1 is at least the greatest F1 of the earlier evaluations of the call
\* (0 when there is none); while the evaluations follow the example scores
\* 0.5, 0.5, 0.6, 0.55, the first three save and the fourth does not.
C1_SaveIffReachesBest ==
    /\ lastEval # <<>> =>
          (lastEval[1].saved <=> Leq(lastEval[1].prev, lastEval[1].f1))
    /\ (nEvals > 0 /\ ex = nEvals) =>
          /\ nSaves = (IF nEvals <= 3 THEN nEvals ELSE 3)
          /\ lastEval[1].saved = (nEvals <= 3)

C1_Witness ==
    /\ ex = 4
    /\ nEvals = 4
    /\ nSaves = 3
    /\ ~lastEval[1].saved

\* ------------------------------------------------------------------- C2
\* C2: a training step is only ever about to run when fewer than early_stop
\* consecutive epochs of index >= warmup_epoch have just ended without an
\* evaluation reaching the running best; and fit leaves the loop early only
\* after early_stop such epochs (an epoch counts as a whole).
C2_HaltsAfterPatience ==
    /\ pc = "train" => streak < p.early_stop
    /\ (pc = "exit" /\ e < p.epoch) => streak >= p.early_stop

C2_Witness ==
    /\ pc = "exit"
    /\ p.warmup_epoch = 2
    /\ p.early_stop = 1
    /\ p.epoch > 3
    /\ e = 3
    /\ step = 3 * p.nb
    /\ lastEval # <<>>
    /\ lastEval[1].f1 # Zero

\* ------------------------------------------------------------------- C7
InFit == pc \in {"head", "train", "exit"}

\* C7 as stated: at the top of every epoch e >= warmup_epoch, e >= 1, when
\* epoch e - 1 had no evaluation reaching the best F1, the counter goes up by
\* one, and fit leaves the loop there once it has reached early_stop.
C7_Original ==
    [][(/\ pc = "head"
        /\ e < p.epoch
        /\ e >= 1
        /\ e >= p.warmup_epoch
        /\ ~epochImproved)
       => /\ no_improve_epoch' = no_improve_epoch + 1
          /\ (no_improve_epoch' >= p.early_stop => pc' = "exit")]_vars

\* C7 amended: that holds at the top of every epoch e > warmup_epoch; at the
\* top of epoch e = warmup_epoch the counter is set to 0 and the epoch is
\* trained, whatever epoch e - 1 did; and after an epoch that did reach the
\* best F1 the counter is set to 0 and the next epoch is trained.
C7_CountsAfterWarmup ==
    [][(pc = "head" /\ e < p.epoch /\ e >= 1)
       => /\ (e > p.warmup_epoch /\ ~epochImproved)
               => /\ no_improve_epoch' = no_improve_epoch + 1
                  /\ (no_improve_epoch' >= p.early_stop
                        => pc' = "exit" /\ step' = step)
                  /\ (no_improve_epoch' < p.early_stop => pc' = "train")
          /\ (e > p.warmup_epoch /\ epochImproved)
               => no_improve_epoch' = 0 /\ pc' = "train"
          /\ e = p.warmup_epoch
               => no_improve_epoch' = 0 /\ pc' = "train"]_vars

C7_Witness ==
    /\ pc = "exit"
    /\ e < p.epoch
    /\ e > p.warmup_epoch + 1
    /\ p.warmup_epoch >= 1
    /\ p.early_stop = 2
    /\ no_improve_epoch = 2

\* ------------------------------------------------------------------- C8
\* C8 as stated, for a model handed to fit with its embedding frozen and a
\* call that evaluates at least once (so that the checkpoint read at the end
\* is the call's own): a training step runs frozen exactly in the epochs
\* below warmup_epoch, the embedding is unfrozen exactly once in the call,
\* and once unfrozen the Learner's model is not frozen again up to and
\* including fit's return.
C8_Original ==
    /\ []((frozen0 /\ nEvals > 0 /\ pc = "done") => thaws = 1)
    /\ [][(InFit /\ frozen0 /\ nEvals > 0)
           => /\ step' = step + 1 => (model.frozen <=> e < p.warmup_epoch)
              /\ ~model.frozen => ~model'.frozen]_vars

\* C8 amended: for a model handed to fit with its embedding frozen, a
\* training step runs frozen exactly in the epochs below warmup_epoch; the
\* embedding is unfrozen at most once, namely when the first epoch of index
\* >= warmup_epoch is entered (never when epoch <= warmup_epoch); inside the
\* loop it is not frozen again; at fit's return the Learner's model is the
\* one load() reads from the checkpoint file, frozen or not as it was saved.
C8_GateInsideLoop ==
    /\ []((frozen0 /\ pc \in {"head", "train", "exit", "done", "error"})
           => /\ thaws <= 1
              /\ thaws = 1 <=> ((pc = "train" /\ e >= p.warmup_epoch)
                                \/ (pc # "train" /\ e > p.warmup_epoch)))
    /\ [][(InFit /\ frozen0)
           => /\ step' = step + 1 => (model.frozen <=> e < p.warmup_epoch)
              /\ (pc' # "done" /\ ~model.frozen) => ~model'.frozen
              /\ pc' = "done" => model' = modelFile[1]]_vars

C8_Witness ==
    /\ pc = "train"
    /\ frozen0
    /\ thaws = 1
    /\ ~model.frozen
    /\ p.warmup_epoch >= 1
    /\ e > p.warmup_epoch
    /\ b > 0

\* ------------------------------------------------------------------- C9
\* C9: when fit has returned, the Learner's model and the info record are
\* those of an evaluation of this call, the latest one with the greatest F1.
C9_Original ==
    pc = "done" =>
        /\ bestEval # <<>>
        /\ model = bestEval[1].m
        /\ infoFile = <<[by |-> run, d |-> bestEval[1].d]>>

\* ------------------------------------------------------------------- C3
\* C3: after two runs of the same mode that each called fit and then
\* record(): the info.csv of each run's subdirectory holds that run's
\* arguments, that run's best-model info and that subdirectory's path; the
\* aggregate log of the mode holds exactly two rows, the two info.csv rows in
\* the order of the runs; and the two subdirectories differ.
C3_Original ==
    (/\ Len(recs) = 2
     /\ recs[1].fitted
     /\ recs[2].fitted
     /\ recs[1].run # recs[2].run
     /\ recs[1].mode = recs[2].mode) =>
        /\ \A i \in 1..2 :
              LET r == recs[i]
                  dir == subdirs[r.subdir]
              IN  /\ Len(dir.csv) = 1
                  /\ dir.csv[1].args = r.args
                  /\ dir.csv[1].mode = r.mode
                  /\ dir.csv[1].subdir = r.subdir
                  /\ dir.csv[1].info.by = r.run
                  /\ logs[r.mode][i] = dir.csv[1]
        /\ Len(logs[recs[1].mode]) = 2
        /\ recs[1].subdir # recs[2].subdir

\* ------------------------------------------------------------------- C5
\* C5 as stated: once the info record exists, no step removes a field of it.
C5_Original ==
    [][infoFile # <<>>
       => /\ infoFile' # <<>>
          /\ DOMAIN infoFile[1].d \subseteq DOMAIN infoFile'[1].d]_vars

\* C5 amended: append_info (from predict_labels) only merges: every field of
\* the record stays and only best_tr and best_f1 may change value; a save
\* of fit replaces the record by one with exactly the five base fields, so
\* the five base fields are in the record at all times and best_tr and
\* best_f1 only until the next save.
C5_AppendMergesSaveReplaces ==
    /\ [](infoFile # <<>> => BaseFields \subseteq DOMAIN infoFile[1].d)
    /\ [][(infoFile # <<>> /\ infoFile' # infoFile /\ pc \in {"idle", "done"})
           => /\ DOMAIN infoFile'[1].d
                   = DOMAIN infoFile[1].d \cup {"best_tr", "best_f1"}
              /\ \A k \in DOMAIN infoFile[1].d \ {"best_tr", "best_f1"} :
                    infoFile'[1].d[k] = infoFile[1].d[k]]_vars
    /\ [][(infoFile' # infoFile /\ pc = "train")
           => DOMAIN infoFile'[1].d = BaseFields]_vars

C5_Witness ==
    /\ infoFile # <<>>
    /\ {"best_tr", "best_f1"} \subseteq DOMAIN infoFile[1].d
    /\ infoFile[1].by = 1
    /\ run = 2
    /\ ret # <<>>

\* ------------------------------------------------------------------- C4
\* the candidates of a search, and the F1 of the validation split at one
Cands(t) == {c \in t.min..(t.max - 1) : (c - t.min) % t.step = 0}
F1At(r, c) == f1_score(r.vt, [i \in DOMAIN r.vp |-> IF r.vp[i] > c THEN 1 ELSE 0])

C10_Original ==
    (/\ ret # <<>>
     /\ ret[1].tresh.kind = "list"
     /\ Cands(ret[1].tresh) # {}
     /\ ~ret[1].is_test) =>
        Round4(f1_score(ret[1].y_true, ret[1].y_label))
            = infoFile[1].d["best_f1"]

\* ------------------------------------------------------------------- C6
Spaces(t) == {i \in DOMAIN t : t[i] = " "}

\* the position of the n-th space of t (0 before the first piece, Len + 1
\* after the last)
Cut(t, n) ==
    IF n = 0 THEN 0
    ELSE IF n > Cardinality(Spaces(t)) THEN Len(t) + 1
    ELSE CHOOSE i \in Spaces(t) :
           Cardinality({j \in Spaces(t) : j < i}) = n - 1

Piece(t, n) == SubSeq(t, Cut(t, n - 1) + 1, Cut(t, n) - 1)

\* what the claim says one space-delimited substring gives
Expected(ss) ==
    IF \A i \in DOMAIN ss : ss[i] \notin Punct THEN <<ss>>
    ELSE LET q == CHOOSE i \in DOMAIN ss :
                    ss[i] \in Punct /\ \A j \in 1..(i - 1) : ss[j] \notin Punct
         IN  SelectSeq(<<SubSeq(ss, 1, q - 1), <<ss[q]>>,
                         SubSeq(ss, q + 1, Len(ss))>>, NonEmpty)

RECURSIVE ExpectedUpTo(_, _)
ExpectedUpTo(t, n) ==
    IF n = 0 THEN <<>>
    ELSE ExpectedUpTo(t, n - 1) \o Expected(Piece(t, n))

RECURSIVE Concat(_)
Concat(ts) == IF ts = <<>> THEN <<>> ELSE Head(ts) \o Concat(Tail(ts))

NotSpace(c) == c # " "

\* C6: the tokens are, piece by piece in order, the non-empty ones among
\* prefix, first punctuation character and whole suffix of a piece that has
\* one, and the piece itself otherwise; their concatenation is the text
\* without its spaces; and the two example texts give the stated tokens.
C6_SplitsAtFirstPunctuation ==
    tokens # <<>> =>
        /\ tokens[1] = ExpectedUpTo(text, Cardinality(Spaces(text)) + 1)
        /\ Concat(tokens[1]) = SelectSeq(text, NotSpace)
        /\ text = HelloWorld =>
              tokens[1] = <<<<"h", "e", "l", "l", "o">>, <<",">>,
                            <<"w", "o", "r", "l", "d">>>>
        /\ text = WaitReally =>
              tokens[1] = <<<<"w", "a", "i", "t">>, <<".">>, <<".", ".">>,
                            <<"r", "e", "a", "l", "l", "y">>, <<"?">>>>

C6_Witness ==
    /\ text = WaitReally
    /\ tokens # <<>>
    /\ Len(tokens[1]) = 5
    /\ tokens[1][3] = <<".", ".">>

====
